---- MODULE Spec2Model ----
(***************************************************************************)
(* Model of the statistical core of 10_joint.ipynb: pmf_from_seq,          *)
(* pd.crosstab, the joint-PMF normalisation, conditional and marginal.     *)
(*                                                                         *)
(* Category labels are small integers (their order is the sort order of    *)
(* the pandas index).  Numbers are exact rationals <<n, d>> in lowest      *)
(* terms; d = 0 encodes the two non-finite results of a float division by  *)
(* zero: <<0, 0>> is NaN and <<1, 0>> is inf.  A Series is a record of an  *)
(* index (sequence of labels) and a sequence of values; a DataFrame adds   *)
(* the two axis names and holds its values as a sequence of rows.          *)
(*                                                                         *)
(* A cell of the notebook runs once the values it reads are there: the     *)
(* samples feed pmf_from_seq and crosstab, the cross-tabulation feeds the  *)
(* normalisation, and the two tables feed conditional and marginal.  pc is *)
(* the cell run last, call and ret the call it made and what the call      *)
(* returned or raised.  The arguments the notebook fixes (which sample,    *)
(* which table, axis name, label) are drawn from the values in scope.      *)
(***************************************************************************)
EXTENDS Integers, Sequences, FiniteSets, TLC

MaxLen == 3        \* longest sample sequence
NumLabels == 2     \* number of distinct category labels
MaxTotal == 2      \* largest grand total of a DataFrame supplied directly

Labels == 1..NumLabels
\* axis names a caller gives to the columns; the rows are named "color"
Names == {"color", "fruit"}
\* names a caller passes to conditional and marginal
ArgNames == Names \cup {"size"}

VARIABLES color_sample, fruit_sample, rownames, colnames, xtab, joint, call, ret, pc

vars == <<color_sample, fruit_sample, rownames, colnames, xtab, joint, call, ret, pc>>

----------------------------------------------------------------------------
(* Numbers *)

RECURSIVE GCD(_, _)
GCD(a, b) == IF b = 0 THEN a ELSE GCD(b, a % b)

NaN == <<0, 0>>
Inf == <<1, 0>>

IsNaN(x) == x = NaN

\* n / d for integers n >= 0, d >= 0, as float division gives it
Rat(n, d) ==
    IF d = 0 THEN (IF n = 0 THEN NaN ELSE Inf)
    ELSE LET g == GCD(n, d) IN <<n \div g, d \div g>>

Int2Rat(c) == <<c, 1>>

Add(x, y) ==
    IF IsNaN(x) \/ IsNaN(y) THEN NaN
    ELSE IF x = Inf \/ y = Inf THEN Inf
    ELSE Rat(x[1] * y[2] + y[1] * x[2], x[2] * y[2])

\* x / y
TrueDiv(x, y) ==
    IF IsNaN(x) \/ IsNaN(y) THEN NaN
    ELSE IF x = Inf THEN (IF y = Inf THEN NaN ELSE Inf)
    ELSE IF y = Inf THEN <<0, 1>>
    ELSE Rat(x[1] * y[2], x[2] * y[1])

----------------------------------------------------------------------------
(* Sequences and labels *)

SetMin(S) == CHOOSE m \in S : \A e \in S : m <= e

RECURSIVE SortedSeq(_)
SortedSeq(S) ==
    IF S = {} THEN <<>>
    ELSE LET m == SetMin(S) IN <<m>> \o SortedSeq(S \ {m})

Range(s) == {s[i] : i \in 1..Len(s)}

\* position of label l in an index (0 when absent)
Loc(idx, l) ==
    IF l \in Range(idx) THEN CHOOSE i \in 1..Len(idx) : idx[i] = l ELSE 0

\* the distinct values of seq in order of first appearance
RECURSIVE Unique(_)
Unique(seq) ==
    IF seq = <<>> THEN <<>>
    ELSE LET init == Unique(SubSeq(seq, 1, Len(seq) - 1))
             last == seq[Len(seq)]
         IN IF last \in Range(init) THEN init ELSE Append(init, last)

\* number of elements of seq equal to v, counted in one pass
RECURSIVE CountOf(_, _)
CountOf(seq, v) ==
    IF seq = <<>> THEN 0
    ELSE CountOf(Tail(seq), v) + (IF Head(seq) = v THEN 1 ELSE 0)

----------------------------------------------------------------------------
(* Values *)

None == [type |-> "None"]
Raise(e) == [type |-> "raise", exc |-> e]
Series(idx, vs) == [type |-> "Series", index |-> idx, vals |-> vs]
DataFrame(rn, cn, idx, cols, vs) ==
    [type |-> "DataFrame", index_name |-> rn, columns_name |-> cn,
     index |-> idx, columns |-> cols, vals |-> vs]

\* Series.sum(): NaN entries are skipped (skipna=True)
RECURSIVE SumSkipNa(_)
SumSkipNa(vs) ==
    IF vs = <<>> THEN <<0, 1>>
    ELSE IF IsNaN(Head(vs)) THEN SumSkipNa(Tail(vs))
    ELSE Add(Head(vs), SumSkipNa(Tail(vs)))

\* ndarray.sum(): NaN propagates
RECURSIVE NpSum(_)
NpSum(vs) ==
    IF vs = <<>> THEN <<0, 1>> ELSE Add(Head(vs), NpSum(Tail(vs)))

SeriesSum(s) == SumSkipNa(s.vals)

SeriesDiv(s, x) ==
    Series(s.index, [i \in 1..Len(s.vals) |-> TrueDiv(s.vals[i], x)])

\* Series.value_counts(sort=False)
value_counts(seq) ==
    LET idx == Unique(seq)
    IN Series(idx, [i \in 1..Len(idx) |-> Int2Rat(CountOf(seq, idx[i]))])

\* Series.sort_index()
sort_index(s) ==
    LET idx == SortedSeq(Range(s.index))
    IN Series(idx, [i \in 1..Len(idx) |-> s.vals[Loc(s.index, idx[i])]])

\* pmf_from_seq dividing by the number of distinct labels, not by the sum
pmf_from_seq_bylen(seq) ==
    LET pmf == sort_index(value_counts(seq))
    IN SeriesDiv(pmf, Int2Rat(Len(pmf.index)))

pmf_from_seq(seq) ==
    LET pmf == sort_index(value_counts(seq))
    IN SeriesDiv(pmf, SeriesSum(pmf))

----------------------------------------------------------------------------
(* DataFrames *)

\* all entries of a DataFrame, row by row (DataFrame.to_numpy(), flattened)
RECURSIVE Flatten(_)
Flatten(rows) ==
    IF rows = <<>> THEN <<>> ELSE Head(rows) \o Flatten(Tail(rows))

to_numpy_sum(tbl) == NpSum(Flatten(tbl.vals))

Column(tbl, j) == [i \in 1..Len(tbl.index) |-> tbl.vals[i][j]]

\* tbl[value]: select a column by label
GetItem(tbl, value) ==
    IF value \notin Range(tbl.columns) THEN Raise("KeyError")
    ELSE Series(tbl.index, Column(tbl, Loc(tbl.columns, value)))

\* tbl.loc[value]: select a row by label
GetLoc(tbl, value) ==
    IF value \notin Range(tbl.index) THEN Raise("KeyError")
    ELSE Series(tbl.columns, tbl.vals[Loc(tbl.index, value)])

\* tbl.sum(axis=0): one entry per column label
SumAxis0(tbl) ==
    Series(tbl.columns,
           [j \in 1..Len(tbl.columns) |-> SumSkipNa(Column(tbl, j))])

\* tbl.sum(axis=1): one entry per row label
SumAxis1(tbl) ==
    Series(tbl.index,
           [i \in 1..Len(tbl.index) |-> SumSkipNa(tbl.vals[i])])

\* tbl / x
DataFrameDiv(tbl, x) ==
    DataFrame(tbl.index_name, tbl.columns_name, tbl.index, tbl.columns,
              [i \in 1..Len(tbl.index) |->
                  [j \in 1..Len(tbl.columns) |-> TrueDiv(tbl.vals[i][j], x)]])

\* crosstab counting the pairs with the two sequences exchanged
crosstab_transposed(a, b, rn, cn) ==
    LET idx == SortedSeq(Range(a))
        cols == SortedSeq(Range(b))
        pairs == [k \in 1..Len(a) |-> <<b[k], a[k]>>]
    IN DataFrame(rn, cn, idx, cols,
                 [i \in 1..Len(idx) |->
                     [j \in 1..Len(cols) |->
                         Int2Rat(CountOf(pairs, <<idx[i], cols[j]>>))]])

\* pd.crosstab(a, b, rownames=[rn], colnames=[cn]) for equal-length a, b
crosstab(a, b, rn, cn) ==
    LET idx == SortedSeq(Range(a))
        cols == SortedSeq(Range(b))
        pairs == [k \in 1..Len(a) |-> <<a[k], b[k]>>]
    IN DataFrame(rn, cn, idx, cols,
                 [i \in 1..Len(idx) |->
                     [j \in 1..Len(cols) |->
                         Int2Rat(CountOf(pairs, <<idx[i], cols[j]>>))]])

\* xtab / xtab.sum(): every column divided by its own sum
normalize_bycolumn(tbl) ==
    DataFrame(tbl.index_name, tbl.columns_name, tbl.index, tbl.columns,
              [i \in 1..Len(tbl.index) |->
                  [j \in 1..Len(tbl.columns) |->
                      TrueDiv(tbl.vals[i][j], SumSkipNa(Column(tbl, j)))]])

\* joint = xtab / xtab.to_numpy().sum()
normalize(tbl) == DataFrameDiv(tbl, to_numpy_sum(tbl))

\* conditional returning the slice without renormalizing it
conditional_unnormalized(tbl, name, value) ==
    IF tbl.columns_name = name THEN GetItem(tbl, value)
    ELSE IF tbl.index_name = name THEN GetLoc(tbl, value)
    ELSE Raise("UnboundLocalError")

\* conditional dividing the slice by its length, not by its sum
conditional_bycount(tbl, name, value) ==
    LET cond == IF tbl.columns_name = name THEN GetItem(tbl, value)
                ELSE IF tbl.index_name = name THEN GetLoc(tbl, value)
                ELSE Raise("UnboundLocalError")
    IN IF cond.type = "raise" THEN cond
       ELSE SeriesDiv(cond, Int2Rat(Len(cond.vals)))

\* conditional testing the row axis before the column axis
conditional_rowfirst(tbl, name, value) ==
    LET cond == IF tbl.index_name = name THEN GetLoc(tbl, value)
                ELSE IF tbl.columns_name = name THEN GetItem(tbl, value)
                ELSE Raise("UnboundLocalError")
    IN IF cond.type = "raise" THEN cond
       ELSE SeriesDiv(cond, SeriesSum(cond))

conditional(tbl, name, value) ==
    LET cond == IF tbl.columns_name = name THEN GetItem(tbl, value)
                ELSE IF tbl.index_name = name THEN GetLoc(tbl, value)
                ELSE Raise("UnboundLocalError")
    IN IF cond.type = "raise" THEN cond
       ELSE SeriesDiv(cond, SeriesSum(cond))

\* marginal renormalizing its result
marginal_renormalized(tbl, name) ==
    LET m == IF tbl.columns_name = name THEN SumAxis0(tbl)
             ELSE IF tbl.index_name = name THEN SumAxis1(tbl)
             ELSE None
    IN IF m.type = "Series" THEN SeriesDiv(m, SeriesSum(m)) ELSE m

\* marginal summing along the wrong axis
marginal_swapped(tbl, name) ==
    IF tbl.columns_name = name THEN SumAxis1(tbl)
    ELSE IF tbl.index_name = name THEN SumAxis0(tbl)
    ELSE None

marginal(tbl, name) ==
    IF tbl.columns_name = name THEN SumAxis0(tbl)
    ELSE IF tbl.index_name = name THEN SumAxis1(tbl)
    ELSE None

----------------------------------------------------------------------------
(* State machine *)

Samples(n) == [1..n -> Labels]

\* the sequences of k counts whose sum is at most t
RECURSIVE Counts(_, _)
Counts(k, t) ==
    IF k = 0 THEN {<<>>}
    ELSE UNION {{<<v>> \o rest : rest \in Counts(k - 1, t - v)} : v \in 0..t}

\* count tables handed to the functions directly: sorted label axes,
\* non-negative integer entries, at most MaxTotal observations
Frames ==
    UNION {
      { DataFrame("color", cn, SortedSeq(I), SortedSeq(C),
                  [i \in 1..Cardinality(I) |->
                      [j \in 1..Cardinality(C) |->
                          Int2Rat(m[(i - 1) * Cardinality(C) + j])]]) :
          m \in Counts(Cardinality(I) * Cardinality(C), MaxTotal) } :
      <<cn, I, C>> \in Names \X (SUBSET Labels \ {{}}) \X (SUBSET Labels \ {{}}) }

InitSamples ==
    /\ \E n \in 0..MaxLen :
          /\ color_sample \in Samples(n)
          /\ fruit_sample \in Samples(n)
    /\ rownames = "color"
    /\ colnames \in Names
    /\ xtab = None
    /\ pc = "samples"

\* the table is supplied as a DataFrame, not computed from samples
InitFrame ==
    /\ color_sample = <<>>
    /\ fruit_sample = <<>>
    /\ xtab \in Frames
    /\ rownames = xtab.index_name
    /\ colnames = xtab.columns_name
    /\ pc = "xtab"

Init ==
    /\ InitSamples \/ InitFrame
    /\ joint = None
    /\ call = [fn |-> "start"]
    /\ ret = None

PmfFromSeq ==
    /\ pc = "samples"
    /\ \E which \in {"color_sample", "fruit_sample"} :
        LET seq == IF which = "color_sample" THEN color_sample ELSE fruit_sample
        IN /\ call' = [fn |-> "pmf_from_seq", seq |-> seq]
           /\ ret' = pmf_from_seq(seq)
    /\ pc' = "pmf"
    /\ UNCHANGED <<color_sample, fruit_sample, rownames, colnames, xtab, joint>>

CrossTab ==
    /\ pc = "samples"
    /\ xtab' = crosstab(color_sample, fruit_sample, rownames, colnames)
    /\ call' = [fn |-> "crosstab", a |-> color_sample, b |-> fruit_sample]
    /\ ret' = xtab'
    /\ pc' = "xtab"
    /\ UNCHANGED <<color_sample, fruit_sample, rownames, colnames, joint>>

Normalize ==
    /\ pc = "xtab"
    /\ joint' = normalize(xtab)
    /\ call' = [fn |-> "normalize", tbl |-> "xtab"]
    /\ ret' = joint'
    /\ pc' = "joint"
    /\ UNCHANGED <<color_sample, fruit_sample, rownames, colnames, xtab>>

\* the tables in scope once the joint PMF is computed
TableNames == {"xtab", "joint"}
Table(t) == IF t = "xtab" THEN xtab ELSE joint

Conditional ==
    /\ pc = "joint"
    /\ \E t \in TableNames, name \in ArgNames, value \in Labels :
        /\ call' = [fn |-> "conditional", tbl |-> t, name |-> name, value |-> value]
        /\ ret' = conditional(Table(t), name, value)
    /\ pc' = "conditional"
    /\ UNCHANGED <<color_sample, fruit_sample, rownames, colnames, xtab, joint>>

Marginal ==
    /\ pc = "joint"
    /\ \E t \in TableNames, name \in ArgNames :
        /\ call' = [fn |-> "marginal", tbl |-> t, name |-> name]
        /\ ret' = marginal(Table(t), name)
    /\ pc' = "marginal"
    /\ UNCHANGED <<color_sample, fruit_sample, rownames, colnames, xtab, joint>>

Next ==
    \/ PmfFromSeq
    \/ CrossTab
    \/ Normalize
    \/ Conditional
    \/ Marginal

Spec == Init /\ [][Next]_vars

----------------------------------------------------------------------------
(* Vocabulary of the properties *)

\* the table the last call was given
Arg == Table(call.tbl)

\* x * y
Mul(x, y) ==
    IF IsNaN(x) \/ IsNaN(y) THEN NaN
    ELSE IF x = Inf \/ y = Inf
         THEN (IF x[1] = 0 \/ y[1] = 0 THEN NaN ELSE Inf)
    ELSE Rat(x[1] * y[1], x[2] * y[2])

\* x is the finite rational n / d (d > 0)
RatIs(x, n, d) == x[2] > 0 /\ x[1] * d = n * x[2]

IsFinite(x) == x[2] > 0

StrictlySorted(idx) == \A i, j \in 1..Len(idx) : i < j => idx[i] < idx[j]

\* f[1] + ... + f[n]
RECURSIVE SumTo(_, _)
SumTo(f, n) == IF n = 0 THEN <<0, 1>> ELSE Add(SumTo(f, n - 1), f[n])

\* sum of the numbers of a sequence
SumFn(f) == SumTo(f, Len(f))

\* number of positions of seq holding v
Occurrences(seq, v) == Cardinality({k \in 1..Len(seq) : seq[k] = v})

\* number of positions where a holds u and b holds v
CoOccurrences(a, b, u, v) ==
    Cardinality({k \in 1..Len(a) : a[k] = u /\ b[k] = v})

----------------------------------------------------------------------------
(* C1: for every sample sequence of length n >= 1, pmf_from_seq returns a
   Series whose index is exactly the distinct labels of the sequence in
   sorted order, whose value at each label is (occurrences of the label)/n,
   every value lies in [0, 1], and the values sum to exactly 1. *)
C1_PmfFromSeq ==
    (call.fn = "pmf_from_seq" /\ Len(call.seq) >= 1) =>
        /\ ret.type = "Series"
        /\ Range(ret.index) = Range(call.seq)
        /\ StrictlySorted(ret.index)
        /\ Len(ret.vals) = Len(ret.index)
        /\ \A i \in 1..Len(ret.index) :
              /\ RatIs(ret.vals[i], Occurrences(call.seq, ret.index[i]), Len(call.seq))
              /\ 0 <= ret.vals[i][1]
              /\ ret.vals[i][1] <= ret.vals[i][2]
        /\ SumFn(ret.vals) = <<1, 1>>

C1_Witness ==
    /\ call.fn = "pmf_from_seq"
    /\ call.seq = <<2, 1, 2>>
    /\ ret = Series(<<1, 2>>, <<<<1, 3>>, <<2, 3>>>>)

(* C2: for equal-length sequences A and B of length n, the cross-tabulation
   has the sorted distinct labels of A as rows and of B as columns, its entry
   at (a, b) is the number of positions i with A[i] = a and B[i] = b (zero
   for pairs never observed together), and all entries sum to n. *)
C2_CrossTab ==
    call.fn = "crosstab" =>
        /\ ret.type = "DataFrame"
        /\ Range(ret.index) = Range(call.a)
        /\ Range(ret.columns) = Range(call.b)
        /\ StrictlySorted(ret.index)
        /\ StrictlySorted(ret.columns)
        /\ Len(ret.vals) = Len(ret.index)
        /\ \A i \in 1..Len(ret.index) :
              /\ Len(ret.vals[i]) = Len(ret.columns)
              /\ \A j \in 1..Len(ret.columns) :
                    ret.vals[i][j] =
                        <<CoOccurrences(call.a, call.b, ret.index[i], ret.columns[j]), 1>>
        /\ SumFn([i \in 1..Len(ret.index) |-> SumFn(ret.vals[i])]) = <<Len(call.a), 1>>

\* a = [r, r, g], b = [x, y, x] with g = 1, r = 2, x = 1, y = 2
C2_Witness ==
    /\ call.fn = "crosstab"
    /\ call.a = <<2, 2, 1>>
    /\ call.b = <<1, 2, 1>>
    /\ ret.index = <<1, 2>>
    /\ ret.columns = <<1, 2>>
    /\ ret.vals = <<<< <<1, 1>>, <<0, 1>> >>, << <<1, 1>>, <<1, 1>> >>>>

----------------------------------------------------------------------------
(* Joint tables and slices, as the properties speak of them *)

\* tbl is the joint PMF of the two samples: their cross-tabulation, normalized
SampleJoint(tbl) ==
    /\ Len(color_sample) >= 1
    /\ tbl = joint
    /\ joint = normalize(crosstab(color_sample, fruit_sample, rownames, colnames))

FiniteTable(tbl) ==
    \A i \in 1..Len(tbl.index), j \in 1..Len(tbl.columns) : IsFinite(tbl.vals[i][j])

GrandTotal(tbl) ==
    SumFn([i \in 1..Len(tbl.index) |-> SumFn(tbl.vals[i])])

RowTotal(tbl, i) == SumFn(tbl.vals[i])
ColTotal(tbl, j) == SumFn([i \in 1..Len(tbl.index) |-> tbl.vals[i][j]])

SeriesTotal(s) == SumFn(s.vals)

RowCase(tbl, name, value) == name = tbl.index_name /\ value \in Range(tbl.index)
ColCase(tbl, name, value) == name = tbl.columns_name /\ value \in Range(tbl.columns)

\* r is the row of tbl at label value divided by the row's own sum, that is
\* P(fruit = x | color = value) of the samples
IsRowConditional(r, tbl, value) ==
    LET i == Loc(tbl.index, value)
    IN /\ r.type = "Series"
       /\ r.index = tbl.columns
       /\ Len(r.vals) = Len(tbl.columns)
       /\ \A j \in 1..Len(tbl.columns) :
             /\ r.vals[j] = TrueDiv(tbl.vals[i][j], RowTotal(tbl, i))
             /\ RatIs(r.vals[j],
                      CoOccurrences(color_sample, fruit_sample, value, tbl.columns[j]),
                      Occurrences(color_sample, value))
       /\ SeriesTotal(r) = <<1, 1>>

\* r is the column of tbl at label value divided by the column's own sum, that
\* is P(color = x | fruit = value) of the samples
IsColConditional(r, tbl, value) ==
    LET j == Loc(tbl.columns, value)
    IN /\ r.type = "Series"
       /\ r.index = tbl.index
       /\ Len(r.vals) = Len(tbl.index)
       /\ \A i \in 1..Len(tbl.index) :
             /\ r.vals[i] = TrueDiv(tbl.vals[i][j], ColTotal(tbl, j))
             /\ RatIs(r.vals[i],
                      CoOccurrences(color_sample, fruit_sample, tbl.index[i], value),
                      Occurrences(fruit_sample, value))
       /\ SeriesTotal(r) = <<1, 1>>

(* C3, as stated: on a joint table built from two samples, for every axis
   name matching one of the two axes and every label on that axis,
   conditional returns the row (name is the row axis) or the column (name is
   the column axis) at that label divided by its own sum. *)
C3_AsStated ==
    (/\ call.fn = "conditional"
     /\ SampleJoint(Arg)
     /\ (RowCase(Arg, call.name, call.value) \/ ColCase(Arg, call.name, call.value)))
    => \/ RowCase(Arg, call.name, call.value) /\ IsRowConditional(ret, Arg, call.value)
       \/ ColCase(Arg, call.name, call.value) /\ IsColConditional(ret, Arg, call.value)

(* C3, amended: on a joint table built from two samples, conditional returns
   the column at the label divided by its own sum when the name is the
   column-axis name and the label is a column label, and the row at the label
   divided by its own sum when the name is the row-axis name, is not also the
   column-axis name, and the label is a row label; the entries sum to 1 and
   each equals count(value, x) / count(value, any). *)
C3_Conditional ==
    (call.fn = "conditional" /\ SampleJoint(Arg)) =>
        /\ ColCase(Arg, call.name, call.value)
              => IsColConditional(ret, Arg, call.value)
        /\ (call.name # Arg.columns_name /\ RowCase(Arg, call.name, call.value))
              => IsRowConditional(ret, Arg, call.value)

\* a = [r, r, g], b = [x, y, x]; conditioning on a = r gives {x: 1/2, y: 1/2}
C3_Witness ==
    /\ call.fn = "conditional"
    /\ SampleJoint(Arg)
    /\ color_sample = <<2, 2, 1>>
    /\ fruit_sample = <<1, 2, 1>>
    /\ Arg.index_name # Arg.columns_name
    /\ call.name = Arg.index_name
    /\ call.value = 2
    /\ ret = Series(<<1, 2>>, <<<<1, 2>>, <<1, 2>>>>)

(* C4: for every 2-D table of numbers and every axis name matching one of
   its axes, marginal returns, for each label of the named axis, the sum of
   the entries over the other axis, with no renormalization: the result sums
   to the grand total of the table. *)
C4_Marginal ==
    (/\ call.fn = "marginal"
     /\ FiniteTable(Arg)
     /\ call.name \in {Arg.index_name, Arg.columns_name})
    => /\ ret.type = "Series"
       /\ \/ /\ call.name = Arg.columns_name
             /\ ret.index = Arg.columns
             /\ Len(ret.vals) = Len(Arg.columns)
             /\ \A j \in 1..Len(Arg.columns) : ret.vals[j] = ColTotal(Arg, j)
          \/ /\ call.name = Arg.index_name
             /\ ret.index = Arg.index
             /\ Len(ret.vals) = Len(Arg.index)
             /\ \A i \in 1..Len(Arg.index) : ret.vals[i] = RowTotal(Arg, i)
       /\ SeriesTotal(ret) = GrandTotal(Arg)

\* the marginal of a raw count table of three observations sums to 3
C4_Witness ==
    /\ call.fn = "marginal"
    /\ Arg.index = <<1, 2>>
    /\ Arg.columns = <<1, 2>>
    /\ Arg.vals = <<<< <<1, 1>>, <<0, 1>> >>, << <<1, 1>>, <<1, 1>> >>>>
    /\ Arg.index_name # Arg.columns_name
    /\ call.name = Arg.columns_name
    /\ ret = Series(<<1, 2>>, <<<<2, 1>>, <<1, 1>>>>)

----------------------------------------------------------------------------
\* value of a result at a label; NaN when the result is no Series or the
\* label is not in its index
At(s, l) ==
    IF s.type = "Series" /\ l \in Range(s.index) THEN s.vals[Loc(s.index, l)] ELSE NaN

\* the law of total probability for tbl with cond the axis named condName
\* (labels condLabels), the other axis named otherName (labels otherLabels),
\* m the marginal of the cond axis
TotalProbability(m, tbl, condName, condLabels, otherName, otherLabels) ==
    \A x \in Range(otherLabels) :
        SumFn([k \in 1..Len(condLabels) |->
                  Mul(At(m, condLabels[k]),
                      At(conditional(tbl, condName, condLabels[k]), x))])
            = At(marginal(tbl, otherName), x)

(* C5, as stated: for every joint PMF built from two samples, with cond one
   axis and other the other axis, for every label x of the other axis the
   sum over the labels v of the cond axis of
   marginal(joint, cond)[v] * conditional(joint, cond, v)[x]
   equals marginal(joint, other)[x]. *)
C5_AsStated ==
    (call.fn = "marginal" /\ SampleJoint(Arg)) =>
        /\ call.name = Arg.index_name =>
              TotalProbability(ret, Arg, Arg.index_name, Arg.index,
                               Arg.columns_name, Arg.columns)
        /\ call.name = Arg.columns_name =>
              TotalProbability(ret, Arg, Arg.columns_name, Arg.columns,
                               Arg.index_name, Arg.index)

(* C5, amended: the law of total probability holds for every joint PMF built
   from two samples whose two axes carry different names. *)
C5_TotalProbability ==
    (/\ call.fn = "marginal"
     /\ SampleJoint(Arg)
     /\ Arg.index_name # Arg.columns_name) =>
        /\ call.name = Arg.index_name =>
              TotalProbability(ret, Arg, Arg.index_name, Arg.index,
                               Arg.columns_name, Arg.columns)
        /\ call.name = Arg.columns_name =>
              TotalProbability(ret, Arg, Arg.columns_name, Arg.columns,
                               Arg.index_name, Arg.index)

\* the marginal of color of a = [r, r, g], b = [x, y, x] is {g: 1/3, r: 2/3}
\* and the conditionals differ between the two colors
C5_Witness ==
    /\ call.fn = "marginal"
    /\ SampleJoint(Arg)
    /\ color_sample = <<2, 2, 1>>
    /\ fruit_sample = <<1, 2, 1>>
    /\ Arg.index_name # Arg.columns_name
    /\ call.name = Arg.index_name
    /\ ret = Series(<<1, 2>>, <<<<1, 3>>, <<2, 3>>>>)
    /\ marginal(Arg, Arg.columns_name) = Series(<<1, 2>>, <<<<2, 3>>, <<1, 3>>>>)

(* C6: conditional gives the same result on a raw count table and on the
   joint PMF obtained by normalizing it, for every count table with nonzero
   total, every axis name and every label on that axis whose slice is
   nonzero. *)
C6_CountsOrJoint ==
    (/\ call.fn = "conditional"
     /\ call.tbl = "xtab"
     /\ GrandTotal(xtab) # <<0, 1>>
     /\ \/ /\ ColCase(xtab, call.name, call.value)
           /\ ColTotal(xtab, Loc(xtab.columns, call.value)) # <<0, 1>>
        \/ /\ RowCase(xtab, call.name, call.value)
           /\ RowTotal(xtab, Loc(xtab.index, call.value)) # <<0, 1>>)
    => ret = conditional(normalize(xtab), call.name, call.value)

\* a count table of three observations that is not its own normalization
C6_Witness ==
    /\ call.fn = "conditional"
    /\ call.tbl = "xtab"
    /\ xtab.index = <<1, 2>>
    /\ xtab.columns = <<1, 2>>
    /\ xtab.vals = <<<< <<1, 1>>, <<0, 1>> >>, << <<1, 1>>, <<1, 1>> >>>>
    /\ joint = normalize(xtab)
    /\ joint # xtab
    /\ xtab.index_name # xtab.columns_name
    /\ call.name = xtab.columns_name
    /\ call.value = 1
    /\ ret = Series(<<1, 2>>, <<<<1, 2>>, <<1, 2>>>>)

(* C7: for every 2-D count table whose grand total is nonzero, the
   normalization has the same shape, axis names and labels, every entry is
   the count divided by the grand total and is >= 0, all entries sum to 1;
   normalizing a table that already sums to 1 returns it unchanged. *)
C7_Normalize ==
    (/\ call.fn = "normalize"
     /\ FiniteTable(Arg)
     /\ GrandTotal(Arg) # <<0, 1>>)
    => /\ ret.type = "DataFrame"
       /\ ret.index = Arg.index
       /\ ret.columns = Arg.columns
       /\ ret.index_name = Arg.index_name
       /\ ret.columns_name = Arg.columns_name
       /\ Len(ret.vals) = Len(Arg.index)
       /\ \A i \in 1..Len(Arg.index) :
             /\ Len(ret.vals[i]) = Len(Arg.columns)
             /\ \A j \in 1..Len(Arg.columns) :
                   /\ RatIs(ret.vals[i][j],
                            Arg.vals[i][j][1] * GrandTotal(Arg)[2],
                            Arg.vals[i][j][2] * GrandTotal(Arg)[1])
                   /\ ret.vals[i][j][1] >= 0
       /\ GrandTotal(ret) = <<1, 1>>
       /\ GrandTotal(Arg) = <<1, 1>> => ret = Arg
       /\ normalize(ret) = ret

\* the joint PMF of three observations; normalizing it again changes nothing
C7_Witness ==
    /\ call.fn = "normalize"
    /\ Arg.vals = <<<< <<1, 1>>, <<0, 1>> >>, << <<1, 1>>, <<1, 1>> >>>>
    /\ ret.vals = <<<< <<1, 3>>, <<0, 1>> >>, << <<1, 3>>, <<1, 3>> >>>>
    /\ ret # Arg
    /\ GrandTotal(ret) = <<1, 1>>
    /\ normalize(ret) = ret

----------------------------------------------------------------------------
(* C8: marginal called with an axis name that matches neither the row-axis
   name nor the column-axis name reports an error to the caller; it never
   returns a value for such a name. *)
C8_UnknownAxis ==
    (/\ call.fn = "marginal"
     /\ call.name \notin {Arg.index_name, Arg.columns_name})
    => ret.type = "raise"

(* C9: pmf_from_seq applied to the empty sequence reports an error rather
   than returning a PMF. *)
C9_EmptyInput ==
    (call.fn = "pmf_from_seq" /\ Len(call.seq) = 0) => ret.type = "raise"

(* C10: conditional called with a valid axis name and a label present on
   that axis, where the selected row or column sums to zero, reports an
   error; it never returns a distribution obtained by dividing by zero. *)
C10_EmptyConditional ==
    (/\ call.fn = "conditional"
     /\ FiniteTable(Arg)
     /\ \/ /\ ColCase(Arg, call.name, call.value)
           /\ ColTotal(Arg, Loc(Arg.columns, call.value)) = <<0, 1>>
        \/ /\ call.name # Arg.columns_name
           /\ RowCase(Arg, call.name, call.value)
           /\ RowTotal(Arg, Loc(Arg.index, call.value)) = <<0, 1>>)
    => ret.type = "raise"

----------------------------------------------------------------------------
\* r is what selecting the column of tbl at label value and dividing it by
\* its sum gives: the lookup error when value is no column label
SelectsColumn(r, tbl, value) ==
    IF value \notin Range(tbl.columns) THEN r = Raise("KeyError")
    ELSE LET j == Loc(tbl.columns, value)
         IN /\ r.type = "Series"
            /\ r.index = tbl.index
            /\ Len(r.vals) = Len(tbl.index)
            /\ \A i \in 1..Len(tbl.index) :
                  r.vals[i] = TrueDiv(tbl.vals[i][j], ColTotal(tbl, j))

\* the same for the row of tbl at label value
SelectsRow(r, tbl, value) ==
    IF value \notin Range(tbl.index) THEN r = Raise("KeyError")
    ELSE LET i == Loc(tbl.index, value)
         IN /\ r.type = "Series"
            /\ r.index = tbl.columns
            /\ Len(r.vals) = Len(tbl.columns)
            /\ \A j \in 1..Len(tbl.columns) :
                  r.vals[j] = TrueDiv(tbl.vals[i][j], RowTotal(tbl, i))

\* r has one entry per column label: the sum of that column
SumsOverRows(r, tbl) ==
    /\ r.type = "Series"
    /\ r.index = tbl.columns
    /\ Len(r.vals) = Len(tbl.columns)
    /\ \A j \in 1..Len(tbl.columns) : r.vals[j] = ColTotal(tbl, j)

\* r has one entry per row label: the sum of that row
SumsOverColumns(r, tbl) ==
    /\ r.type = "Series"
    /\ r.index = tbl.index
    /\ Len(r.vals) = Len(tbl.index)
    /\ \A i \in 1..Len(tbl.index) : r.vals[i] = RowTotal(tbl, i)

(* C11: axis-name resolution tests the column axis first in conditional and
   in marginal: whenever the name equals the column-axis name, also when the
   row axis carries the same name, conditional selects a column and marginal
   sums over rows (one entry per column label); the row axis is targeted
   only when the name differs from the column-axis name and equals the
   row-axis name. *)
C11_ColumnFirst ==
    (call.fn \in {"conditional", "marginal"} /\ FiniteTable(Arg)) =>
        /\ (call.fn = "conditional" /\ call.name = Arg.columns_name)
              => SelectsColumn(ret, Arg, call.value)
        /\ (call.fn = "conditional" /\ call.name # Arg.columns_name
                                    /\ call.name = Arg.index_name)
              => SelectsRow(ret, Arg, call.value)
        /\ (call.fn = "marginal" /\ call.name = Arg.columns_name)
              => SumsOverRows(ret, Arg)
        /\ (call.fn = "marginal" /\ call.name # Arg.columns_name
                                 /\ call.name = Arg.index_name)
              => SumsOverColumns(ret, Arg)

\* both axes are named "color"; the table has rows 1, 2 and the one column 1,
\* so the column at label 1 and the row at label 1 differ
C11_Witness ==
    /\ call.fn = "conditional"
    /\ Arg.index_name = Arg.columns_name
    /\ call.name = Arg.columns_name
    /\ Arg.index = <<1, 2>>
    /\ Arg.columns = <<1>>
    /\ Arg.vals = << << <<1, 1>> >>, << <<1, 1>> >> >>
    /\ call.value = 1
    /\ ret = Series(<<1, 2>>, <<<<1, 2>>, <<1, 2>>>>)
    /\ ~SelectsRow(ret, Arg, call.value)
====
